---- MODULE Spec2Model ----
(***************************************************************************)
(* Model of the guardian-layer triage-and-proposal pipeline.               *)
(*                                                                         *)
(*   tools/guardian_intake.py         signal -> care-case synthesis        *)
(*   tools/guardian_propose_patch.py  the proposal controller (main loop)  *)
(*                                                                         *)
(* The controller is modelled one external command per step: every git/gh  *)
(* command that _run executes may fail, and what a failure does depends on *)
(* the check= flag the code passes.  The backend (remote branches, change  *)
(* requests, the default branch's content) and the local working context   *)
(* (HEAD, index, written artifact files, local branches) are the state.    *)
(*                                                                         *)
(* Care-case c lives in generated/ as the c-th file in sorted order; its   *)
(* branch is guardian/<c> and its artifact guardian/patches/<c>.md.        *)
(* Tension is an integer number of hundredths.                             *)
(***************************************************************************)
EXTENDS Integers, Sequences, FiniteSets

\* ---------------------------------------------------------------- bounds
NumCases == 2
MaxRuns == 2
\* the most files one change request touches
MaxFiles == 3
\* the largest tension, in hundredths
MaxTension == 100
\* the most signal files one intake run processes
NumSignals == 2
\* the controller instances running at the same time
NumInstances == 2

Cases == 1..NumCases

\* A branch is <<files>>, the artifact files its tip adds to the base tip;
\* <<>> is "no branch of that name" (local or remote).
NoBranch == <<>>
Branch(files) == <<files>>
\* a care-case record that was not synthesized from a modelled signal
NoSignal == [tension |-> 0, kind |-> "none", severity |-> "none"]

VARIABLES
    signal,       \* signal[c]: the signal care-case c was synthesized from, or NoSignal
    store,        \* generated/: store[c] is the care-case record of case c
    upstream,     \* upstream[c]: origin/<default> already holds the identical artifact of c
    remote,       \* remote[c]: remote branch guardian/c, or NoBranch
    prs,          \* prs[c]: states of the change requests whose head is guardian/c
    annotated,    \* cases whose change request received both labels and the comment
    head,         \* working context: 0 = default branch, c = guardian/c
    localBr,      \* localBr[c]: local branch guardian/c, or NoBranch
    index,        \* artifact files staged in the git index
    written,      \* artifact files written into guardian/patches/ of the working tree
    pc,           \* position of the controller
    idx,          \* position of the loop `for path in cases`
    created_any,  \* main's created_any flag
    runs,         \* controller runs started
    completed,    \* controller runs that returned from main normally
    cmd,          \* the command _run executed last
    rc,           \* its return code
    \* guardian_validate_pr.py
    vbranch,      \* PR_HEAD_REF
    vchanged,     \* what git diff --name-only BASE_SHA HEAD_SHA lists
    vcontent,     \* vcontent[p]: what _read_text returns for patch path p
    vpc,          \* position of the validator
    vdiff,        \* "not run", "ok" or "failed": the git diff command
    files,        \* main's files
    patch_files,  \* main's patch_files: <<path, case id>> pairs
    errors,       \* main's errors
    vi,           \* position of the loop over patch_files
    vexit,        \* exit status of the validator, -1 while it runs
    vreport,      \* what the validator reports on exit
    \* guardian_intake.py
    ssignal,      \* the signal build_carecase is applied to
    scase,        \* the care-case it returns, NoCase before
    idocs,        \* the changed signal files: whether each passes the signal
                  \* schema and whether its care-case passes the care-case schema
    ifiles,       \* ifiles[k]: generated/carecase.<signal id k>.json
    ipc,          \* position of the intake run
    ii,           \* position of the loop over the signal files
    iexit,        \* exit status of the intake run, -1 while it runs
    seen,         \* what a reader of generated/ found in the file it read last
    \* guardian_propose_patch.py, several instances on one eligible case
    rpc,          \* rpc[i]: position of instance i
    rpushed,      \* the instances whose push of guardian/<case_id> succeeded, in order
    rprs,         \* the instances whose gh pr create succeeded, in order
    rsaw,         \* rsaw[i]: what the checks of instance i found
    roverlap      \* two instances were running at the same time

controller == <<signal, store, upstream, remote, prs, annotated, head, localBr, index,
                written, pc, idx, created_any, runs, completed, cmd, rc>>

validator == <<vbranch, vchanged, vcontent, vpc, vdiff, files, patch_files, errors,
               vi, vexit, vreport>>

synth == <<ssignal, scase>>

intake == <<idocs, ifiles, ipc, ii, iexit, seen>>

race == <<rpc, rpushed, rprs, rsaw, roverlap>>

vars == <<signal, store, upstream, remote, prs, annotated, head, localBr, index,
          written, pc, idx, created_any, runs, completed, cmd, rc, validator,
          synth, intake, race>>

backend == <<upstream, remote, prs, annotated>>
workctx == <<head, localBr, index, written>>
\* what no step of the controller changes: its input and the other tools
inputs  == <<signal, store, validator, synth, intake, race>>

\* ------------------------------------------------- guardian_intake.py

Tensions   == {39, 40, 90}
Kinds      == {"web-perf", "security"}
Severities == {"warn", "fail"}
Signals    == [tension : Tensions, kind : Kinds, severity : Severities]

\* as if the green band included its upper bound
gate_from_tension_le(t) ==
    IF t <= 40 THEN "green"
    ELSE IF t < 75 THEN "yellow"
    ELSE "red"

\* as if the yellow band included its upper bound
gate_from_tension_le75(t) ==
    IF t < 40 THEN "green"
    ELSE IF t <= 75 THEN "yellow"
    ELSE "red"

gate_from_tension(t) ==
    IF t < 40 THEN "green"
    ELSE IF t < 75 THEN "yellow"
    ELSE "red"

\* as if rollback were recommended for a failing red signal of any kind
recommended_action_any_kind(gate, kind, severity) ==
    IF gate = "green" THEN "propose_patch"
    ELSE IF gate = "red" /\ severity = "fail" THEN "rollback"
    ELSE "human_review"

recommended_action(gate, kind, severity) ==
    IF gate = "green" THEN "propose_patch"
    ELSE IF gate = "red" /\ kind = "web-perf" /\ severity = "fail" THEN "rollback"
    ELSE "human_review"

\* The care-case fields the controller reads.  reversibility = "none" stands
\* for a record with no proposed_transition.
build_carecase(s) ==
    LET gate   == gate_from_tension(s.tension)
        action == recommended_action(gate, s.kind, s.severity)
    IN  [policy_gate        |-> gate,
         recommended_action |-> action,
         reversibility      |->
             IF s.kind = "web-perf" /\ action \in {"propose_patch", "human_review"}
             THEN "reversible" ELSE "none"]

\* build_carecase has not been applied
NoCase == [policy_gate |-> "none", recommended_action |-> "none", reversibility |-> "none"]

\* signal.get("kind", "") and signal.get("severity", "info")
SynthKinds == Kinds \cup {""}
SynthSeverities == Severities \cup {"info"}

SynthSignals ==
    [tension : 0..MaxTension, kind : SynthKinds, severity : SynthSeverities]

\* the signal ids
SignalIds == 1..NumSignals

\* A changed signal file: the id of its signal, which names the output
\* file (two files may hold the same id), and what validate finds: whether
\* the signal passes the signal schema, whether the care-case built from it
\* passes the care-case schema.
Docs == [id : SignalIds, signal_ok : BOOLEAN, case_ok : BOOLEAN]

\* the lists of at most n changed signal files
RECURSIVE DocLists(_)
DocLists(n) ==
    IF n = 0 THEN { <<>> }
    ELSE DocLists(n - 1) \cup { Append(l, d) : l \in {m \in DocLists(n - 1) : Len(m) = n - 1}, d \in Docs }

\* What a file of generated/ holds: "absent", "old" (the complete record of
\* an earlier run), "empty" (opened for writing, nothing flushed), "partial"
\* (a flushed prefix of the record), "new" (the complete record of this run).
Complete == {"old", "new"}

\* ------------------------------------------ guardian_propose_patch.py

\* as if the reversibility of the proposed transition were not looked at
_is_reversible_proposal_any(case) ==
    IF case.policy_gate # "green" THEN FALSE
    ELSE case.recommended_action = "propose_patch"

_is_reversible_proposal(case) ==
    IF case.policy_gate # "green" THEN FALSE
    ELSE IF case.recommended_action # "propose_patch" THEN FALSE
    ELSE case.reversibility = "reversible"

\* as if the query were made with --state open
PrListOpen(c) == SelectSeq(prs[c], LAMBDA st : st = "open")

\* gh pr list --head guardian/c --state all --json number: the change
\* requests listed for the head, whatever their state.
PrListAll(c) == prs[c]

\* as if the comparison of the output with ("", "[]") were inverted
_existing_pr_inverted(c) == PrListAll(c) = <<>>

_existing_pr(c) == PrListAll(c) # <<>>

\* git ls-remote --heads origin guardian/c, run with check=False: a failed
\* command leaves stdout empty and is not told apart from "no such branch".
_remote_branch_exists(ok, c) == ok /\ remote[c] # NoBranch

HasOpenPr(c) == \E i \in 1..Len(prs[c]) : prs[c][i] = "open"

\* ---------------------------------------------- guardian_validate_pr.py

\* Strings are modelled by their parts.  A name is [dir, stem, ext]: the
\* directory prefixes in order, the last component without extension, the
\* extension.  A stem is [name, len, hex, upper]: which text it is, its
\* length, whether all its characters are in 0-9a-fA-F-, whether its letters
\* are upper case.
UuidLen == 36

Stem(n, l, h, u) == [name |-> n, len |-> l, hex |-> h, upper |-> u]

IdA      == Stem("a", UuidLen, TRUE, FALSE)
IdAUpper == Stem("a", UuidLen, TRUE, TRUE)
IdB      == Stem("b", UuidLen, TRUE, FALSE)
IdShort  == Stem("a", UuidLen - 1, TRUE, FALSE)
NoStem   == Stem("", 0, FALSE, FALSE)

\* str.lower()
Lower(stem) == [stem EXCEPT !.upper = FALSE]

Name(d, st, e) == [dir |-> d, stem |-> st, ext |-> e]

PatchDir == <<"guardian/", "patches/">>

\* guardian/patches/<stem>.md
PatchPath(st) == Name(PatchDir, st, ".md")

\* str.startswith on the directory prefixes
StartsWith(name, prefix) ==
    /\ Len(name.dir) >= Len(prefix)
    /\ SubSeq(name.dir, 1, Len(prefix)) = prefix

\* [0-9a-fA-F-]{36}
IsUuid(stem) == stem.hex /\ stem.len = UuidLen

\* PATCH_RE = ^guardian/patches/([0-9a-fA-F-]{36})\.md$
PATCH_RE(path) == path.dir = PatchDir /\ IsUuid(path.stem) /\ path.ext = ".md"

\* BRANCH_RE = ^guardian/[0-9a-fA-F-]{36}$
BRANCH_RE(branch) ==
    branch.dir = <<"guardian/">> /\ IsUuid(branch.stem) /\ branch.ext = ""

\* as if the branch were tested with the full pattern
_is_guardian_branch_strict(branch) == BRANCH_RE(branch)

_is_guardian_branch(branch) == StartsWith(branch, <<"guardian/">>)

\* The files a change request can touch, in the order git diff lists them.
AllPaths ==
    << Name(<<>>, Stem("README", 6, FALSE, TRUE), ".md"),
       PatchPath(IdAUpper),
       PatchPath(IdA),
       PatchPath(IdB),
       Name(PatchDir, Stem("notes", 5, FALSE, FALSE), ".txt"),
       Name(<<"src/">>, Stem("app", 3, FALSE, FALSE), ".py") >>

PathSet == {AllPaths[i] : i \in 1..Len(AllPaths)}

\* The head branches: main, guardian/<uuid> (two), guardian/<35 characters>,
\* guardian/patches/<uuid>.
Branches ==
    { Name(<<>>, Stem("main", 4, FALSE, FALSE), ""),
      Name(<<"guardian/">>, IdA, ""),
      Name(<<"guardian/">>, IdB, ""),
      Name(<<"guardian/">>, IdShort, ""),
      Name(PatchDir, IdA, "") }

\* A file's text: whether the file is there and non-empty, which section
\* markers occur in it, which ids it mentions, which checkbox markers occur.
Text(pr, se, me, bx) == [present |-> pr, sections |-> se, mentions |-> me, boxes |-> bx]

NoText == Text(FALSE, {}, {}, {})

required_sections ==
    << "# Guardian Patch Proposal",
       "## Root cause hypothesis",
       "## Suggested patch steps",
       "## Verification checklist" >>

SectionSet == {required_sections[i] : i \in 1..Len(required_sections)}

\* The texts a patch file of case id st is tried with: well-formed (the id
\* in its own or the other letter case), one marker missing, no id or
\* another id, no checkbox or only checked ones, and missing or empty.
Texts(st) ==
    { Text(TRUE, SectionSet, {st}, {"- [ ]"}),
      Text(TRUE, SectionSet, {[st EXCEPT !.upper = ~st.upper]}, {"- [ ]", "- [x]"}),
      Text(TRUE, SectionSet, {}, {"- [ ]"}),
      Text(TRUE, SectionSet, {IF st.name = "a" THEN IdB ELSE IdA}, {"- [ ]"}),
      Text(TRUE, SectionSet, {st}, {}),
      Text(TRUE, SectionSet, {st}, {"- [x]"}),
      Text(TRUE, {}, {}, {}),
      NoText }
    \cup { Text(TRUE, SectionSet \ {m}, {st}, {"- [ ]"}) : m \in SectionSet }

\* One line of a failure report.
Violation(kind, path, what) == [kind |-> kind, path |-> path, what |-> what]

NoPath == Name(<<>>, NoStem, "")

\* _validate_patch_markdown, the loop over required_sections
RECURSIVE SectionErrors(_, _, _)
SectionErrors(path, content, i) ==
    IF i > Len(required_sections) THEN <<>>
    ELSE (IF required_sections[i] \notin content.sections
          THEN << Violation("missing section marker", path, required_sections[i]) >>
          ELSE <<>>)
         \o SectionErrors(path, content, i + 1)

\* case_id.lower() in content.lower()
MentionsId(content, case_id) ==
    Lower(case_id) \in {Lower(m) : m \in content.mentions}

\* as if the checklist were not looked at
_validate_patch_markdown_no_boxes(path, case_id, content) ==
    IF ~content.present
    THEN << Violation("file missing or unreadable", path, "") >>
    ELSE SectionErrors(path, content, 1)
         \o (IF ~MentionsId(content, case_id)
             THEN << Violation("does not mention case id", path, "") >> ELSE <<>>)

_validate_patch_markdown(path, case_id, content) ==
    IF ~content.present
    THEN << Violation("file missing or unreadable", path, "") >>
    ELSE SectionErrors(path, content, 1)
         \o (IF ~MentionsId(content, case_id)
             THEN << Violation("does not mention case id", path, "") >> ELSE <<>>)
         \o (IF "- [ ]" \notin content.boxes
             THEN << Violation("no checkboxes", path, "") >> ELSE <<>>)

\* BRANCH_RE.match(branch): TRUE when _enforce_branch_format returns
_enforce_branch_format(branch) == BRANCH_RE(branch)

\* as if only the first file outside the directory were kept
OffendersFirst(fs) ==
    LET bad == SelectSeq(fs, LAMBDA f : ~StartsWith(f, PatchDir))
    IN  IF bad = <<>> THEN bad ELSE << bad[1] >>

\* _enforce_only_patch_files: bad
Offenders(fs) == SelectSeq(fs, LAMBDA f : ~StartsWith(f, PatchDir))

\* as if only the files named for the head branch's id were collected
PatchFilesOfBranch(fs) ==
    LET matching == SelectSeq(fs, LAMBDA f : PATCH_RE(f) /\ Lower(f.stem) = Lower(vbranch.stem))
    IN  [i \in 1..Len(matching) |-> <<matching[i], matching[i].stem>>]

\* main, lines 110-113
PatchFiles(fs) ==
    LET matching == SelectSeq(fs, LAMBDA f : PATCH_RE(f))
    IN  [i \in 1..Len(matching) |-> <<matching[i], matching[i].stem>>]

\* guardian_intake.py, _derive_case_id: the id of care-case c, a uuid5 in
\* lower case
CaseNames == <<"a", "b", "c", "d">>

_derive_case_id(c) == Stem(CaseNames[c], UuidLen, TRUE, FALSE)

\* guardian_propose_patch.py, _write_patch_stub: the text written to
\* guardian/patches/<case_id>.md, for a case with or without verification
\* steps, signals and a root-cause hypothesis.  The header line holds the
\* case id; the checklist is the verification steps as "- [ ]" items or the
\* one item "- [ ] Add verification steps".
_write_patch_stub(case_id, has_verification, has_signals, has_hypothesis) ==
    Text(TRUE,
         SectionSet \cup {"## Signals"},
         {case_id},
         {"- [ ]"})

\* The validator has not been started.
ValidatorIdle ==
    /\ vpc = "start"
    /\ vdiff = "not run"
    /\ files = <<>>
    /\ patch_files = <<>>
    /\ errors = <<>>
    /\ vi = 0
    /\ vexit = -1
    /\ vreport = <<>>

\* ----------------------------------------------------------- initial states

\* Care-case records as they can sit in generated/: every shape intake
\* produces, and records that fail one conjunct of the eligibility predicate.
CaseKinds ==
    { [policy_gate |-> "green",  recommended_action |-> "propose_patch", reversibility |-> "reversible"],
      [policy_gate |-> "green",  recommended_action |-> "propose_patch", reversibility |-> "none"],
      [policy_gate |-> "green",  recommended_action |-> "propose_patch", reversibility |-> "irreversible"],
      [policy_gate |-> "green",  recommended_action |-> "human_review",  reversibility |-> "reversible"],
      [policy_gate |-> "yellow", recommended_action |-> "propose_patch", reversibility |-> "reversible"],
      [policy_gate |-> "red",    recommended_action |-> "rollback",      reversibility |-> "none"] }

\* The controller has not run; the backend holds no branch and no change
\* request.
InitCommon ==
    /\ remote = [c \in Cases |-> NoBranch]
    /\ prs = [c \in Cases |-> <<>>]
    /\ annotated = {}
    /\ head = 0
    /\ localBr = [c \in Cases |-> NoBranch]
    /\ index = {}
    /\ written = {}
    /\ pc = "idle"
    /\ idx = 0
    /\ created_any = FALSE
    /\ runs = 0
    /\ completed = 0
    /\ cmd = ""
    /\ rc = 0

\* The controller's specifications leave the validator unstarted, on the
\* change request of a well-formed proposal.
InitNoValidator ==
    /\ vbranch = Name(<<"guardian/">>, IdA, "")
    /\ vchanged = << PatchPath(IdA) >>
    /\ vcontent = [p \in {PatchPath(IdA)} |-> Text(TRUE, SectionSet, {IdA}, {"- [ ]"})]
    /\ ValidatorIdle

InitNoSynth ==
    /\ ssignal = [tension |-> 0, kind |-> "", severity |-> "info"]
    /\ scase = NoCase

\* no intake run and no reader
InitNoIntake ==
    /\ idocs = <<>>
    /\ ifiles = [k \in SignalIds |-> "absent"]
    /\ ipc = "start"
    /\ ii = 0
    /\ iexit = -1
    /\ seen = "nothing"

Instances == 1..NumInstances

\* what the checks of an instance found, before it ran them
NotSeen == [prs |-> 0, ls_ok |-> TRUE, pushed |-> 0]

\* no instance was started
InitNoRace ==
    /\ rpc = [i \in Instances |-> "idle"]
    /\ rpushed = <<>>
    /\ rprs = <<>>
    /\ rsaw = [i \in Instances |-> NotSeen]
    /\ roverlap = FALSE

\* The other tools' specifications leave the controller unstarted, on a store
\* of eligible care-cases.
InitNoController ==
    /\ signal = [c \in Cases |-> NoSignal]
    /\ store = [c \in Cases |-> [policy_gate |-> "green", recommended_action |-> "propose_patch",
                                  reversibility |-> "reversible"]]
    /\ upstream = [c \in Cases |-> FALSE]
    /\ InitCommon

\* The default branch may already hold a case's identical artifact.
Init ==
    /\ signal = [c \in Cases |-> NoSignal]
    /\ store \in [Cases -> CaseKinds]
    /\ upstream \in [Cases -> BOOLEAN]
    /\ InitCommon
    /\ InitNoValidator
    /\ InitNoSynth
    /\ InitNoIntake
    /\ InitNoRace

\* generated/ as guardian_intake.main leaves it: one care-case per signal;
\* the default branch holds no artifact yet.
InitPipeline ==
    /\ signal \in [Cases -> Signals]
    /\ store = [c \in Cases |-> build_carecase(signal[c])]
    /\ upstream = [c \in Cases |-> FALSE]
    /\ InitCommon
    /\ InitNoValidator
    /\ InitNoSynth
    /\ InitNoIntake
    /\ InitNoRace

\* ------------------------------------------------------- controller steps

Idle == pc \in {"idle", "done", "aborted"}

\* _run: the command executed last and its return code.
Ran(command, code) ==
    /\ cmd' = command
    /\ rc' = code

\* _run(..., check=True) on a failed command: SystemExit leaves main.
Abort(command) ==
    /\ pc' = "aborted"
    /\ Ran(command, 1)
    /\ UNCHANGED <<idx, created_any, completed>>

\* `continue`: on to the next path of the loop.
Continue ==
    /\ pc' = "load"
    /\ idx' = idx + 1

\* main, lines 231-240: list the cases (generated/ holds NumCases of them, so
\* the early return on an empty list is not taken), _configure_git_identity
\* (check=True),
\* _log_repo_context and _default_branch (check=False; a failed lookup falls
\* back to "main", the default branch of the modelled repository).
StartRun ==
    /\ Idle
    /\ runs < MaxRuns
    /\ runs' = runs + 1
    /\ \E ok \in BOOLEAN, looked \in BOOLEAN :
         IF ok
         THEN /\ pc' = "load"
              /\ idx' = 1
              /\ created_any' = FALSE
              /\ Ran("gh repo view", IF looked THEN 0 ELSE 1)
              /\ UNCHANGED completed
         ELSE Abort("git config")
    /\ UNCHANGED <<inputs, backend, workctx>>

\* The loop is exhausted: main returns.
FinishRun ==
    /\ pc = "load"
    /\ idx > NumCases
    /\ pc' = "done"
    /\ completed' = completed + 1
    /\ UNCHANGED <<inputs, backend, workctx, idx, created_any, runs, cmd, rc>>

\* Lines 242-247: load the case; an ineligible case is passed over.
LoadCase ==
    /\ pc = "load"
    /\ idx \in Cases
    /\ IF _is_reversible_proposal(store[idx])
       THEN pc' = "check_pr" /\ UNCHANGED idx
       ELSE Continue
    /\ UNCHANGED <<inputs, backend, workctx, created_any, runs, completed, cmd, rc>>

\* Lines 249-251: _existing_pr, whose gh pr list runs with check=True.
CheckPr ==
    /\ pc = "check_pr"
    /\ \E ok \in BOOLEAN :
         IF ~ok THEN Abort("gh pr list")
         ELSE /\ IF _existing_pr(idx) THEN Continue
                 ELSE pc' = "check_branch" /\ UNCHANGED idx
              /\ Ran("gh pr list", 0)
              /\ UNCHANGED <<created_any, completed>>
    /\ UNCHANGED <<inputs, backend, workctx, runs>>

\* Lines 253-255: _remote_branch_exists.
CheckBranch ==
    /\ pc = "check_branch"
    /\ \E ok \in BOOLEAN :
         /\ IF _remote_branch_exists(ok, idx) THEN Continue
            ELSE pc' = "checkout" /\ UNCHANGED idx
         /\ Ran("git ls-remote", IF ok THEN 0 ELSE 1)
    /\ UNCHANGED <<inputs, backend, workctx, created_any, runs, completed>>

\* Line 257: _checkout_branch: git fetch, then git checkout -B guardian/c
\* origin/<base>, both check=True.  -B creates the local branch or resets an
\* existing one to the base tip; staged changes are carried along.
Checkout ==
    /\ pc = "checkout"
    /\ \E ok \in BOOLEAN :
         IF ~ok THEN Abort("git checkout -B branch") /\ UNCHANGED <<head, localBr>>
         ELSE /\ head' = idx
              /\ localBr' = [localBr EXCEPT ![idx] = Branch({})]
              /\ pc' = "write"
              /\ Ran("git checkout -B branch", 0)
              /\ UNCHANGED <<idx, created_any, completed>>
    /\ UNCHANGED <<inputs, backend, index, written, runs>>

\* Line 259: _write_patch_stub writes guardian/patches/<c>.md.
WriteStub ==
    /\ pc = "write"
    /\ written' = written \cup {idx}
    /\ pc' = "add"
    /\ UNCHANGED <<inputs, backend, head, localBr, index, idx, created_any, runs,
                   completed, cmd, rc>>

\* Line 260: git add <patch_path>, check=True.  A file identical to the one
\* the base tip already holds stages nothing.
GitAdd ==
    /\ pc = "add"
    /\ \E ok \in BOOLEAN :
         IF ~ok THEN Abort("git add") /\ UNCHANGED index
         ELSE /\ index' = IF upstream[idx] THEN index ELSE index \cup {idx}
              /\ pc' = "staged"
              /\ Ran("git add", 0)
              /\ UNCHANGED <<idx, created_any, completed>>
    /\ UNCHANGED <<inputs, backend, head, localBr, written, runs>>

\* git diff --cached --quiet: exit 0 iff the index holds no change; every
\* other exit code, an error included, reads as "has staged changes".
_has_staged_changes(ok) == ~ok \/ index # {}

\* Lines 261-267: nothing staged: restore the default branch (check=False)
\* and continue; otherwise go on to commit.
CheckStaged ==
    /\ pc = "staged"
    /\ \E ok \in BOOLEAN, back \in BOOLEAN :
         IF _has_staged_changes(ok)
         THEN /\ pc' = "commit"
              /\ Ran("git diff --cached", 1)
              /\ UNCHANGED <<idx, head>>
         ELSE /\ Continue
              /\ head' = IF back THEN 0 ELSE head
              /\ Ran("git checkout -B base", IF back THEN 0 ELSE 1)
    /\ UNCHANGED <<inputs, backend, localBr, index, written, created_any, runs, completed>>

\* Lines 268-271: git commit, check=True; git refuses an empty commit.
Commit ==
    /\ pc = "commit"
    /\ \E ok \in BOOLEAN :
         IF ~ok \/ index = {} THEN Abort("git commit") /\ UNCHANGED <<localBr, index>>
         ELSE /\ localBr' = [localBr EXCEPT ![idx] = Branch(index)]
              /\ index' = {}
              /\ pc' = "push"
              /\ Ran("git commit", 0)
              /\ UNCHANGED <<idx, created_any, completed>>
    /\ UNCHANGED <<inputs, backend, head, written, runs>>

\* Line 272: git push -u origin guardian/c, check=True.  The local branch was
\* rebuilt from the base tip, so when the remote already has a branch of
\* that name the push is rejected as a non-fast-forward, unless the local
\* commit is the very commit the remote holds (same files, parent, message
\* and identity, and the same commit second): then it succeeds.
Push ==
    /\ pc = "push"
    /\ \E ok \in BOOLEAN, same \in BOOLEAN :
         IF ~ok \/ (remote[idx] # NoBranch /\ ~(same /\ remote[idx] = localBr[idx]))
         THEN Abort("git push") /\ UNCHANGED remote
         ELSE /\ remote' = [remote EXCEPT ![idx] = localBr[idx]]
              /\ pc' = "create"
              /\ Ran("git push", 0)
              /\ UNCHANGED <<idx, created_any, completed>>
    /\ UNCHANGED <<inputs, upstream, prs, annotated, workctx, runs>>

\* Lines 274-293: gh pr create --base <base> --head guardian/c, check=True.
\* The review system refuses a second open change request for the same head.
CreatePr ==
    /\ pc = "create"
    /\ \E ok \in BOOLEAN :
         IF ~ok \/ remote[idx] = NoBranch \/ HasOpenPr(idx)
         THEN Abort("gh pr create") /\ UNCHANGED prs
         ELSE /\ prs' = [prs EXCEPT ![idx] = Append(@, "open")]
              /\ pc' = "annotate"
              /\ Ran("gh pr create", 0)
              /\ UNCHANGED <<idx, created_any, completed>>
    /\ UNCHANGED <<inputs, upstream, remote, annotated, workctx, runs>>

\* as if the annotation commands ran with check=True
AnnotateChecked ==
    /\ pc = "annotate"
    /\ \E url \in BOOLEAN, l1 \in BOOLEAN, l2 \in BOOLEAN, cm \in BOOLEAN :
         IF url /\ l1 /\ l2 /\ cm
         THEN /\ annotated' = annotated \cup {idx}
              /\ Ran("gh pr comment", 0)
              /\ created_any' = TRUE
              /\ pc' = "return"
              /\ UNCHANGED <<idx, completed>>
         ELSE /\ Abort(IF url THEN "gh pr comment" ELSE "gh pr view")
              /\ UNCHANGED annotated
    /\ UNCHANGED <<inputs, upstream, remote, prs, workctx, runs>>

\* Lines 294-303: _get_pr_url_by_head, then _post_pr_metadata when a url was
\* resolved: label guardian, label bot, reviewer comment.  Every command runs
\* with check=False; the case counts as created whatever they return.
Annotate ==
    /\ pc = "annotate"
    /\ \E url \in BOOLEAN, l1 \in BOOLEAN, l2 \in BOOLEAN, cm \in BOOLEAN :
         /\ annotated' = IF url /\ l1 /\ l2 /\ cm THEN annotated \cup {idx} ELSE annotated
         /\ IF url THEN Ran("gh pr comment", IF cm THEN 0 ELSE 1)
                   ELSE Ran("gh pr view", 1)
    /\ created_any' = TRUE
    /\ pc' = "return"
    /\ UNCHANGED <<inputs, upstream, remote, prs, workctx, idx, runs, completed>>

\* Lines 304-307: git checkout -B <base> origin/<base>, check=False.
ReturnToBase ==
    /\ pc = "return"
    /\ \E ok \in BOOLEAN :
         /\ head' = IF ok THEN 0 ELSE head
         /\ Ran("git checkout -B base", IF ok THEN 0 ELSE 1)
    /\ Continue
    /\ UNCHANGED <<inputs, backend, localBr, index, written, created_any, runs, completed>>

\* --------------------------------------------- the review backend's users

SetState(c, st) ==
    [prs EXCEPT ![c] = [i \in 1..Len(@) |-> IF @[i] = "open" THEN st ELSE @[i]]]

\* Between controller runs.  After any of these steps the controller is
\* "idle": pc = "done" and pc = "aborted" describe the backend as the run
\* that just ended left it.

\* A reviewer closes the open change request of case c without merging.
ClosePr(c) ==
    /\ Idle
    /\ HasOpenPr(c)
    /\ prs' = SetState(c, "closed")
    /\ pc' = "idle"
    /\ UNCHANGED <<inputs, upstream, remote, annotated, workctx, idx, created_any, runs, completed, cmd, rc>>

\* A reviewer merges it: the default branch now holds the files the head
\* branch carries.
MergePr(c) ==
    /\ Idle
    /\ HasOpenPr(c)
    /\ remote[c] # NoBranch
    /\ prs' = SetState(c, "merged")
    /\ pc' = "idle"
    /\ upstream' = [f \in Cases |-> upstream[f] \/ f \in remote[c][1]]
    /\ UNCHANGED <<inputs, remote, annotated, workctx, idx, created_any, runs, completed, cmd, rc>>

\* The head branch is deleted once its change request is no longer open.
DeleteBranch(c) ==
    /\ Idle
    /\ remote[c] # NoBranch
    /\ ~HasOpenPr(c)
    /\ remote' = [remote EXCEPT ![c] = NoBranch]
    /\ pc' = "idle"
    /\ UNCHANGED <<inputs, upstream, prs, annotated, workctx, idx, created_any, runs, completed, cmd, rc>>

Next ==
    \/ StartRun
    \/ FinishRun
    \/ LoadCase
    \/ CheckPr
    \/ CheckBranch
    \/ Checkout
    \/ WriteStub
    \/ GitAdd
    \/ CheckStaged
    \/ Commit
    \/ Push
    \/ CreatePr
    \/ Annotate
    \/ ReturnToBase
    \/ \E c \in Cases : ClosePr(c)
    \/ \E c \in Cases : MergePr(c)
    \/ \E c \in Cases : DeleteBranch(c)

\* Controller runs one after the other, the backend touched by nobody else.
NextSeq ==
    \/ StartRun
    \/ FinishRun
    \/ LoadCase
    \/ CheckPr
    \/ CheckBranch
    \/ Checkout
    \/ WriteStub
    \/ GitAdd
    \/ CheckStaged
    \/ Commit
    \/ Push
    \/ CreatePr
    \/ Annotate
    \/ ReturnToBase

Spec == Init /\ [][Next]_vars

SpecSeq == Init /\ [][NextSeq]_vars

SpecPipeline == InitPipeline /\ [][Next]_vars

\* ------------------------------------------------------ validator steps

\* what the validator reads and never writes
vinputs == <<vbranch, vchanged, vcontent>>

\* what no step of the validator changes
vothers == <<controller, vinputs, synth, intake, race>>

\* The sorted lists of at most n of the files of AllPaths.
RECURSIVE ChangedLists(_, _)
ChangedLists(i, n) ==
    IF i > Len(AllPaths) THEN { <<>> }
    ELSE ChangedLists(i + 1, n)
         \cup (IF n = 0 THEN {}
               ELSE { <<AllPaths[i]>> \o l : l \in ChangedLists(i + 1, n - 1) })

ToSet(seq) == {seq[i] : i \in 1..Len(seq)}

\* A change request: its head branch, its changed files, and the text of each
\* changed patch file in the checked-out tree.
InitValidator ==
    /\ InitNoController
    /\ InitNoSynth
    /\ InitNoIntake
    /\ InitNoRace
    /\ vbranch \in Branches
    /\ vchanged \in ChangedLists(1, MaxFiles)
    /\ vcontent \in { f \in [ {p \in ToSet(vchanged) : PATCH_RE(p)} -> UNION {Texts(p.stem) : p \in PathSet} ] :
                        \A p \in DOMAIN f : f[p] \in Texts(p.stem) }
    /\ ValidatorIdle

\* main, lines 98-102 and 104-131: the ways the validator ends
VExit(code, report) ==
    /\ vpc' = "exit"
    /\ vexit' = code
    /\ vreport' = report

\* main, lines 100-102
VSkip ==
    /\ vpc = "start"
    /\ ~_is_guardian_branch(vbranch)
    /\ VExit(0, << Violation("not a guardian branch, skipped", vbranch, "") >>)
    /\ UNCHANGED <<vdiff, files, patch_files, errors, vi, vothers>>

\* main, line 104
VRejectBranch ==
    /\ vpc = "start"
    /\ _is_guardian_branch(vbranch)
    /\ ~_enforce_branch_format(vbranch)
    /\ VExit(1, << Violation("branch must match guardian/<case_uuid>", vbranch, "") >>)
    /\ UNCHANGED <<vdiff, files, patch_files, errors, vi, vothers>>

\* main, line 106: git diff --name-only, check=True
VChangedFiles ==
    /\ vpc = "start"
    /\ _is_guardian_branch(vbranch)
    /\ _enforce_branch_format(vbranch)
    /\ \E ok \in BOOLEAN :
         IF ok
         THEN /\ vdiff' = "ok"
              /\ files' = vchanged
              /\ vpc' = "enforce"
              /\ UNCHANGED <<vexit, vreport>>
         ELSE /\ vdiff' = "failed"
              /\ VExit(1, << Violation("command failed", NoPath, "git diff") >>)
              /\ UNCHANGED files
    /\ UNCHANGED <<patch_files, errors, vi, vothers>>

\* main, line 107
VEnforceOnlyPatchFiles ==
    /\ vpc = "enforce"
    /\ IF Offenders(files) # <<>>
       THEN VExit(1, [i \in 1..Len(Offenders(files)) |->
                        Violation("outside guardian/patches/", Offenders(files)[i], "")])
       ELSE /\ vpc' = "collect"
            /\ UNCHANGED <<vexit, vreport>>
    /\ UNCHANGED <<vdiff, files, patch_files, errors, vi, vothers>>

\* main, lines 108-118
VCollect ==
    /\ vpc = "collect"
    /\ patch_files' = PatchFiles(files)
    /\ IF PatchFiles(files) = <<>>
       THEN /\ VExit(1, << Violation("no patch file", NoPath, "") >>)
            /\ UNCHANGED vi
       ELSE /\ vpc' = "validate"
            /\ vi' = 1
            /\ UNCHANGED <<vexit, vreport>>
    /\ UNCHANGED <<vdiff, files, errors, vothers>>

\* as if the loop stopped at the first file with an error
VValidateFileShort ==
    /\ vpc = "validate"
    /\ vi <= Len(patch_files)
    /\ errors' = errors \o _validate_patch_markdown(patch_files[vi][1], patch_files[vi][2],
                                                    vcontent[patch_files[vi][1]])
    /\ vi' = IF errors' # <<>> THEN Len(patch_files) + 1 ELSE vi + 1
    /\ UNCHANGED <<vpc, vdiff, files, patch_files, vexit, vreport, vothers>>

\* main, lines 120-122: one turn of the loop
VValidateFile ==
    /\ vpc = "validate"
    /\ vi <= Len(patch_files)
    /\ errors' = errors \o _validate_patch_markdown(patch_files[vi][1], patch_files[vi][2],
                                                    vcontent[patch_files[vi][1]])
    /\ vi' = vi + 1
    /\ UNCHANGED <<vpc, vdiff, files, patch_files, vexit, vreport, vothers>>

\* main, lines 124-131
VReport ==
    /\ vpc = "validate"
    /\ vi > Len(patch_files)
    /\ IF errors # <<>>
       THEN VExit(1, errors)
       ELSE VExit(0, [i \in 1..Len(patch_files) |->
                        Violation("validated", patch_files[i][1], "")])
    /\ UNCHANGED <<vdiff, files, patch_files, errors, vi, vothers>>

NextValidator ==
    \/ VSkip
    \/ VRejectBranch
    \/ VChangedFiles
    \/ VEnforceOnlyPatchFiles
    \/ VCollect
    \/ VValidateFile
    \/ VReport

SpecValidator == InitValidator /\ [][NextValidator]_vars

\* --------------------------------------------------------- intake steps

\* build_carecase applied to one signal
InitSynth ==
    /\ InitNoController
    /\ InitNoValidator
    /\ InitNoIntake
    /\ InitNoRace
    /\ ssignal \in SynthSignals
    /\ scase = NoCase

\* build_carecase, lines 91-125
Synthesize ==
    /\ scase = NoCase
    /\ scase' = build_carecase(ssignal)
    /\ UNCHANGED <<ssignal, controller, validator, intake, race>>

NextSynth == Synthesize

SpecSynth == InitSynth /\ [][NextSynth]_vars

\* One intake run over the changed signal files, the files of generated/
\* being absent or left by an earlier run, and a reader of generated/.
InitIntake ==
    /\ InitNoController
    /\ InitNoValidator
    /\ InitNoSynth
    /\ InitNoRace
    /\ idocs \in DocLists(NumSignals)
    /\ ifiles \in [SignalIds -> {"absent", "old"}]
    /\ ipc = "start"
    /\ ii = 0
    /\ iexit = -1
    /\ seen = "nothing"

iothers == <<controller, validator, synth, race>>

\* changed_signal_files, lines 23-37: git diff --name-only through
\* check_output, which raises when the command fails; main ends there
IDiffFailed ==
    /\ ipc' = "exit"
    /\ iexit' = 1
    /\ UNCHANGED ii

\* main, lines 152-157: no changed signal file
INoSignals ==
    /\ ipc = "start"
    /\ idocs = <<>>
    /\ \E ok \in BOOLEAN :
         IF ok THEN ipc' = "exit" /\ iexit' = 0 /\ UNCHANGED ii
         ELSE IDiffFailed
    /\ UNCHANGED <<idocs, ifiles, seen, iothers>>

\* main, lines 152 and 159-163
IStart ==
    /\ ipc = "start"
    /\ idocs # <<>>
    /\ \E ok \in BOOLEAN :
         IF ok THEN ipc' = "loop" /\ ii' = 1 /\ UNCHANGED iexit
         ELSE IDiffFailed
    /\ UNCHANGED <<idocs, ifiles, seen, iothers>>

\* main, lines 165-170: load, validate, build_carecase, validate
IValidate ==
    /\ ipc = "loop"
    /\ ii <= Len(idocs)
    /\ IF idocs[ii].signal_ok /\ idocs[ii].case_ok
       THEN /\ ipc' = "open"
            /\ UNCHANGED iexit
       ELSE /\ ipc' = "exit"
            /\ iexit' = 1
    /\ UNCHANGED <<idocs, ifiles, ii, seen, iothers>>

\* write_json, lines 137-138: path.open("w") creates or truncates the file
IWriteOpen ==
    /\ ipc = "open"
    /\ ifiles' = [ifiles EXCEPT ![idocs[ii].id] = "empty"]
    /\ ipc' = "dump"
    /\ UNCHANGED <<idocs, ii, iexit, seen, iothers>>

\* write_json, lines 139-140: the buffered text reaches the file, in part
\* when the buffer fills, in whole when the file is closed
IWriteDump ==
    /\ ipc = "dump"
    /\ \/ /\ ifiles[idocs[ii].id] = "empty"
          /\ ifiles' = [ifiles EXCEPT ![idocs[ii].id] = "partial"]
          /\ UNCHANGED <<ipc, ii>>
       \/ /\ ifiles' = [ifiles EXCEPT ![idocs[ii].id] = "new"]
          /\ ipc' = "loop"
          /\ ii' = ii + 1
    /\ UNCHANGED <<idocs, iexit, seen, iothers>>

\* main, lines 178-183
IFinish ==
    /\ ipc = "loop"
    /\ ii > Len(idocs)
    /\ ipc' = "exit"
    /\ iexit' = 0
    /\ UNCHANGED <<idocs, ifiles, ii, seen, iothers>>

\* guardian_propose_patch.py, _list_cases and _load_json, in another process
Reader(i) ==
    /\ ifiles[i] # "absent"
    /\ seen' = ifiles[i]
    /\ UNCHANGED <<idocs, ifiles, ipc, ii, iexit, iothers>>

NextIntake ==
    \/ INoSignals
    \/ IStart
    \/ IValidate
    \/ IWriteOpen
    \/ IWriteDump
    \/ IFinish
    \/ \E k \in SignalIds : Reader(k)

SpecIntake == InitIntake /\ [][NextIntake]_vars

\* ------------------------------------------------- concurrent instances

\* NumInstances controllers, each in a working tree of its own, over one
\* eligible care-case; the backend holds no branch and no change request
\* for it, and the default branch does not hold its artifact.
InitRace ==
    /\ InitNoController
    /\ InitNoValidator
    /\ InitNoSynth
    /\ InitNoIntake
    /\ InitNoRace

rothers == <<controller, validator, synth, intake>>

Running(i) == rpc[i] \notin {"idle", "done", "skipped", "aborted"}

\* _existing_pr, as an instance finds the backend
RExistingPr == rprs # <<>>

\* as if ls-remote never reported a branch
RRemoteBranchExistsNever(ok) == FALSE

\* _remote_branch_exists, as an instance finds the backend: check=False, a
\* failed command reads as "no such branch"
RRemoteBranchExists(ok) == ok /\ rpushed # <<>>

RStep(i, to) == rpc' = [rpc EXCEPT ![i] = to]

\* main, lines 231-247: instance i starts (_configure_git_identity runs
\* git config with check=True) and loads the case, which is eligible
RStart(i) ==
    /\ rpc[i] = "idle"
    /\ \E ok \in BOOLEAN : RStep(i, IF ok THEN "check_pr" ELSE "aborted")
    /\ roverlap' = (roverlap \/ \E j \in Instances \ {i} : Running(j))
    /\ UNCHANGED <<rpushed, rprs, rsaw, rothers>>

\* main, lines 249-251: gh pr list, check=True
RCheckPr(i) ==
    /\ rpc[i] = "check_pr"
    /\ \E ok \in BOOLEAN :
         IF ~ok THEN RStep(i, "aborted") /\ UNCHANGED rsaw
         ELSE /\ rsaw' = [rsaw EXCEPT ![i].prs = Len(rprs)]
              /\ RStep(i, IF RExistingPr THEN "skipped" ELSE "check_branch")
    /\ UNCHANGED <<rpushed, rprs, roverlap, rothers>>

\* main, lines 253-255: git ls-remote, check=False
RCheckBranch(i) ==
    /\ rpc[i] = "check_branch"
    /\ \E ok \in BOOLEAN :
         /\ rsaw' = [rsaw EXCEPT ![i].ls_ok = ok, ![i].pushed = Len(rpushed)]
         /\ RStep(i, IF RRemoteBranchExists(ok) THEN "skipped" ELSE "checkout")
    /\ UNCHANGED <<rpushed, rprs, roverlap, rothers>>

\* main, line 257: git fetch and git checkout -B, check=True
RCheckout(i) ==
    /\ rpc[i] = "checkout"
    /\ \E ok \in BOOLEAN : RStep(i, IF ok THEN "stage" ELSE "aborted")
    /\ UNCHANGED <<rpushed, rprs, rsaw, roverlap, rothers>>

\* main, lines 259-267: _write_patch_stub, git add (check=True) and
\* _has_staged_changes, which finds the new file staged
RStage(i) ==
    /\ rpc[i] = "stage"
    /\ \E ok \in BOOLEAN : RStep(i, IF ok THEN "commit" ELSE "aborted")
    /\ UNCHANGED <<rpushed, rprs, rsaw, roverlap, rothers>>

\* main, lines 268-271: git commit, check=True
RCommit(i) ==
    /\ rpc[i] = "commit"
    /\ \E ok \in BOOLEAN : RStep(i, IF ok THEN "push" ELSE "aborted")
    /\ UNCHANGED <<rpushed, rprs, rsaw, roverlap, rothers>>

\* main, line 272: git push -u origin guardian/<case_id>, check=True.  When
\* the remote already has the branch, the push is rejected as a
\* non-fast-forward unless the two commits are the same object (same tree,
\* parent, identity, message and second), and then it succeeds.
RPush(i) ==
    /\ rpc[i] = "push"
    /\ \E ok, same \in BOOLEAN :
         IF ~ok \/ (rpushed # <<>> /\ ~same)
         THEN RStep(i, "aborted") /\ UNCHANGED rpushed
         ELSE /\ rpushed' = Append(rpushed, i)
              /\ RStep(i, "create")
    /\ UNCHANGED <<rprs, rsaw, roverlap, rothers>>

\* main, lines 274-293: gh pr create, check=True, refused when the head has an
\* open change request
RCreatePr(i) ==
    /\ rpc[i] = "create"
    /\ \E ok \in BOOLEAN :
         IF ~ok \/ rprs # <<>>
         THEN RStep(i, "aborted") /\ UNCHANGED rprs
         ELSE /\ rprs' = Append(rprs, i)
              /\ RStep(i, "annotate")
    /\ UNCHANGED <<rpushed, rsaw, roverlap, rothers>>

\* main, lines 294-303: gh pr view, gh pr edit twice, gh pr comment, all
\* check=False; labels and comment are not among what the instances share
RAnnotate(i) ==
    /\ rpc[i] = "annotate"
    /\ RStep(i, "return")
    /\ UNCHANGED <<rpushed, rprs, rsaw, roverlap, rothers>>

\* main, lines 304-311: git checkout -B <base>, check=False; the loop and
\* the run end
RReturnToBase(i) ==
    /\ rpc[i] = "return"
    /\ RStep(i, "done")
    /\ UNCHANGED <<rpushed, rprs, rsaw, roverlap, rothers>>

NextRace ==
    \E i \in Instances :
        \/ RStart(i)
        \/ RCheckPr(i)
        \/ RCheckBranch(i)
        \/ RCheckout(i)
        \/ RStage(i)
        \/ RCommit(i)
        \/ RPush(i)
        \/ RCreatePr(i)
        \/ RAnnotate(i)
        \/ RReturnToBase(i)

SpecRace == InitRace /\ [][NextRace]_vars

\* ================================================================ claims

\* The eligibility predicate as the specification words it.
Eligible(c) ==
    /\ store[c].policy_gate = "green"
    /\ store[c].recommended_action = "propose_patch"
    /\ store[c].reversibility = "reversible"

NumPrs(c) == Len(prs[c])

\* The first run has returned normally and no later run has ended otherwise:
\* the controller is at the end of its first run, inside its second, or at
\* the end of a second that also returned normally.
FirstRunsCompleted ==
    \/ runs = 1 /\ completed = 1
    \/ runs = 2 /\ completed = 1 /\ ~Idle
    \/ runs = 2 /\ completed = 2

\* C1 as stated: two runs in sequence, each to completion, over a backend
\* that held no branch and no change request, leave exactly one remote
\* branch and exactly one change request for every eligible case.
C1_ExactlyOneAfterTwoRuns ==
    (runs = 2 /\ completed = 2) =>
        \A c \in Cases : Eligible(c) => remote[c] # NoBranch /\ NumPrs(c) = 1

\* C1, amended: the same, for every eligible case whose identical artifact
\* the default branch does not hold already; for a case whose artifact it
\* holds, staging yields no change and neither run creates anything.  From
\* the end of the first run to the end of the second the backend holds
\* exactly that, so the second run creates nothing.
C1_Idempotent ==
    FirstRunsCompleted =>
        \A c \in Cases : Eligible(c) =>
            IF upstream[c]
            THEN remote[c] = NoBranch /\ NumPrs(c) = 0
            ELSE remote[c] # NoBranch /\ c \in remote[c][1] /\ NumPrs(c) = 1

C1_Witness ==
    /\ runs = 2 /\ completed = 2
    /\ \E c \in Cases : Eligible(c) /\ ~upstream[c] /\ NumPrs(c) = 1 /\ remote[c] # NoBranch

\* C2: at most one change request per case, whatever runs were interrupted
\* at whatever command, and whatever reviewers did with the change requests
\* and branches in between.
C2_AtMostOnePr ==
    \A c \in Cases : NumPrs(c) <= 1

\* a run follows an interrupted one and a closed change request whose branch
\* was deleted, and passes over the case
C2_Witness ==
    /\ runs = 2 /\ completed = 1 /\ pc = "done"
    /\ \E c \in Cases : Eligible(c) /\ prs[c] = <<"closed">> /\ remote[c] = NoBranch

\* C3 as stated: a run that returns normally leaves every eligible case with
\* exactly one change request, whatever earlier runs left in the backend.
\* Stated for the cases whose artifact the default branch does not hold, so
\* that what refutes it is state left by an interrupted run.
C3_ExactlyOneWhenDone ==
    pc = "done" => \A c \in Cases : Eligible(c) /\ ~upstream[c] => NumPrs(c) = 1

\* C3, amended: a run that returns normally leaves every eligible case with
\* at most one change request: exactly one, unless the case was skipped
\* because a remote branch guardian/<c> without a change request was there,
\* or dropped because staging its artifact produced no change; then none.
C3_OneOrSkipped ==
    pc = "done" =>
        \A c \in Cases : Eligible(c) =>
            \/ NumPrs(c) = 1
            \/ NumPrs(c) = 0 /\ (remote[c] # NoBranch \/ upstream[c])

\* an earlier run pushed the branch and failed to open the change request;
\* the next run returned normally and left the case without one
C3_Witness ==
    /\ pc = "done" /\ runs = 2 /\ completed = 1
    /\ \E c \in Cases : Eligible(c) /\ ~upstream[c] /\ remote[c] # NoBranch /\ NumPrs(c) = 0

\* The controller is creating the proposal of case idx: it has checked the
\* branch out and has not pushed it yet.
Creating == pc \in {"write", "add", "staged", "commit", "push"}

\* C4: an eligible case for which the review system holds a change request,
\* or the remote a branch guardian/<c>, is skipped without mutation: the
\* controller never checks out, writes, stages, commits or pushes for it.
C4_SkipWithoutMutation ==
    Creating => NumPrs(idx) = 0 /\ remote[idx] = NoBranch

\* C5: an ineligible case has no side effects: it is never selected, no
\* branch guardian/<c> exists locally or remotely, its artifact is neither
\* written, staged nor committed anywhere, the working context is never on
\* its branch, and it has no change request and no annotation.
C5_IneligibleUntouched ==
    \A c \in Cases : ~Eligible(c) =>
        /\ pc \in {"check_pr", "check_branch", "checkout", "write", "add", "staged",
                   "commit", "push", "create", "annotate", "return"} => idx # c
        /\ head # c
        /\ localBr[c] = NoBranch
        /\ remote[c] = NoBranch
        /\ c \notin written
        /\ c \notin index
        /\ \A d \in Cases : /\ localBr[d] # NoBranch => c \notin localBr[d][1]
                            /\ remote[d] # NoBranch => c \notin remote[d][1]
        /\ NumPrs(c) = 0
        /\ c \notin annotated

\* a run passed over an ineligible case and opened the change request of an
\* eligible one
C5_Witness ==
    /\ pc = "done"
    /\ \E c, d \in Cases : ~Eligible(c) /\ store[c].policy_gate = "green" /\ NumPrs(d) = 1

\* the commands of branch creation, commit, push and change-request creation
CreationCommands ==
    {"git checkout -B branch", "git add", "git commit", "git push", "gh pr create"}

\* C6: a failed creation command is fatal for its case only: the run does
\* not end on it while care-cases remain to be processed.
C6_FailureIsolated ==
    ~(pc = "aborted" /\ cmd \in CreationCommands /\ idx < NumCases)

\* C7: a failed existence query is fatal for the case: the controller is
\* past a query only when the query's command succeeded.
C7_FailedQueryFatal ==
    /\ pc = "check_branch" => cmd = "gh pr list" /\ rc = 0
    /\ pc = "checkout" => cmd = "git ls-remote" /\ rc = 0

\* C8: whenever the controller is about to load a case, the working context
\* is on the default branch.
C8_BackOnDefaultBranch ==
    pc = "load" => head = 0

\* the commands of post-creation annotation
AnnotationCommands == {"gh pr view", "gh pr edit", "gh pr comment"}

\* C9: annotation is best-effort.  No run ends on an annotation command or
\* on the checkout that follows it; after the annotation step, failed or not, the change request is open, its
\* branch is on the remote and created_any is set; and the step after it is
\* the checkout of the default branch, which puts the working context there
\* when git carries it out, with the loop on to the next case.
C9_AnnotationBestEffort ==
    /\ pc = "aborted" => cmd \notin AnnotationCommands \cup {"git checkout -B base"}
    /\ pc = "return" =>
          /\ HasOpenPr(idx) /\ NumPrs(idx) = 1
          /\ remote[idx] # NoBranch
          /\ created_any
          /\ cmd \in AnnotationCommands
    /\ (pc = "load" /\ cmd = "git checkout -B base" /\ rc = 0) => head = 0

\* an annotation command has failed for the case just created, and the
\* controller has returned to the default branch and is on to the next case
C9_Witness ==
    /\ pc = "load" /\ idx > 1 /\ cmd = "git checkout -B base" /\ rc = 0 /\ head = 0
    /\ created_any
    /\ HasOpenPr(idx - 1) /\ (idx - 1) \notin annotated

\* the signal of the specification's example: tension 0.9, web-perf, fail
RollbackSignal == [tension |-> 90, kind |-> "web-perf", severity |-> "fail"]

\* C10: a synthesized care-case passes the controller's eligibility predicate
\* iff its signal has tension < 0.40 and kind web-perf; the case of the
\* rollback signal is red/rollback without proposed_transition, and no
\* branch and no change request ever exists for it.
C10_PipelineEligibility ==
    \A c \in Cases :
        /\ _is_reversible_proposal(store[c])
              <=> (signal[c].tension < 40 /\ signal[c].kind = "web-perf")
        /\ ~(signal[c].tension < 40 /\ signal[c].kind = "web-perf") =>
              /\ remote[c] = NoBranch /\ localBr[c] = NoBranch /\ NumPrs(c) = 0
        /\ signal[c] = RollbackSignal =>
              /\ store[c] = [policy_gate |-> "red", recommended_action |-> "rollback",
                             reversibility |-> "none"]
              /\ remote[c] = NoBranch /\ localBr[c] = NoBranch /\ NumPrs(c) = 0

\* two runs are over; the case of the rollback signal was passed over and the
\* case of a green web-perf signal has its change request
C10_Witness ==
    /\ pc = "done" /\ runs = 2
    /\ \E c, d \in Cases :
          /\ signal[c] = RollbackSignal
          /\ signal[d].tension = 39 /\ signal[d].kind = "web-perf" /\ NumPrs(d) = 1

\* ------------------------------------------------------------ validator

\* the changed files matching guardian/patches/<uuid>.md, in order
Matching == SelectSeq(vchanged, LAMBDA f : PATCH_RE(f))

Outside == SelectSeq(vchanged, LAMBDA f : ~StartsWith(f, PatchDir))

Reported(v) == \E i \in 1..Len(vreport) : vreport[i] = v

WellFormed(p) ==
    /\ vcontent[p].present
    /\ SectionSet \subseteq vcontent[p].sections
    /\ \E m \in vcontent[p].mentions : Lower(m) = Lower(p.stem)
    /\ "- [ ]" \in vcontent[p].boxes

\* C11: on a head branch guardian/<uuid> the validator exits 0 only if every
\* changed file is under guardian/patches/, at least one changed file matches
\* guardian/patches/<uuid>.md, and every matching file is present and
\* non-empty, holds the four section markers, mentions the id of its own
\* name in any letter case and holds an unchecked "- [ ]"; its report is
\* then the list of the matching files.
C11_ValidatorSound ==
    (vexit = 0 /\ BRANCH_RE(vbranch)) =>
        /\ Outside = <<>>
        /\ Matching # <<>>
        /\ \A i \in 1..Len(Matching) : WellFormed(Matching[i])
        /\ vreport = [i \in 1..Len(Matching) |-> Violation("validated", Matching[i], "")]

\* a run accepted two patch files, one whose text spells its id in the
\* other letter case and holds checked boxes beside the unchecked one
C11_Witness ==
    /\ vexit = 0
    /\ BRANCH_RE(vbranch)
    /\ Len(vreport) = 2
    /\ \E i \in 1..Len(Matching) :
         /\ Matching[i].stem \notin vcontent[Matching[i]].mentions
         /\ "- [x]" \in vcontent[Matching[i]].boxes

\* C12: on a head branch guardian/<uuid> whose changed-file list was
\* obtained, a changed file outside guardian/patches/ makes the validator
\* exit non-zero with a report naming every such file, also when a
\* well-formed patch file is among the changed files.
C12_ScopeEnforced ==
    (vpc = "exit" /\ BRANCH_RE(vbranch) /\ vdiff = "ok" /\ Outside # <<>>) =>
        /\ vexit # 0
        /\ \A i \in 1..Len(Outside) :
             Reported(Violation("outside guardian/patches/", Outside[i], ""))

\* a run rejected a request with two files outside the directory and one
\* well-formed patch file
C12_Witness ==
    /\ vpc = "exit"
    /\ BRANCH_RE(vbranch)
    /\ vdiff = "ok"
    /\ Len(Outside) = 2
    /\ Len(Matching) = 1
    /\ WellFormed(Matching[1])
    /\ vexit = 1

\* C13: a head branch not starting with guardian/ ends the run with exit 0
\* and no file check; one starting with guardian/ that is not
\* guardian/<36-character uuid> is rejected with a non-zero exit before the
\* changed-file list is computed; the changed-file list is computed only,
\* and always, for a conforming name - whatever the changed files are.
C13_BranchStage ==
    /\ vdiff # "not run" => BRANCH_RE(vbranch)
    /\ vpc = "exit" =>
         /\ ~StartsWith(vbranch, <<"guardian/">>) =>
              vexit = 0 /\ vdiff = "not run" /\ files = <<>> /\ errors = <<>>
         /\ (StartsWith(vbranch, <<"guardian/">>) /\ ~BRANCH_RE(vbranch)) =>
              vexit # 0 /\ vdiff = "not run" /\ files = <<>>
         /\ BRANCH_RE(vbranch) => vdiff # "not run"

\* a run ended on guardian/<35 characters> although the request changes only
\* a well-formed patch file
C13_Witness ==
    /\ vpc = "exit"
    /\ vbranch.dir = <<"guardian/">>
    /\ vbranch.stem.len = UuidLen - 1
    /\ Len(vchanged) = 1
    /\ Len(Matching) = 1
    /\ WellFormed(Matching[1])

\* all that _validate_patch_markdown finds in the matching files from the
\* i-th on
RECURSIVE AllErrors(_)
AllErrors(i) ==
    IF i > Len(Matching) THEN <<>>
    ELSE _validate_patch_markdown(Matching[i], Matching[i].stem, vcontent[Matching[i]])
         \o AllErrors(i + 1)

\* C14: when the validator rejects a request on a conforming branch whose
\* changed-file list was obtained, its report holds every violation of the
\* request: every file outside guardian/patches/, the absence of a patch
\* file, and every defect of every patch file.
C14_FullViolationList ==
    (vpc = "exit" /\ BRANCH_RE(vbranch) /\ vdiff = "ok" /\ vexit # 0) =>
        /\ \A i \in 1..Len(Outside) :
             Reported(Violation("outside guardian/patches/", Outside[i], ""))
        /\ Matching = <<>> => Reported(Violation("no patch file", NoPath, ""))
        /\ \A i \in 1..Len(AllErrors(1)) : Reported(AllErrors(1)[i])

\* C15: once the loop over the patch files has run, the accumulated list is
\* the violations of all matching files together, in order; the run exits
\* non-zero iff that list is non-empty, and then reports all of it.
C15_Accumulates ==
    (vpc = "exit" /\ vdiff = "ok" /\ Outside = <<>> /\ Matching # <<>>) =>
        /\ errors = AllErrors(1)
        /\ vexit # 0 <=> errors # <<>>
        /\ vexit # 0 => vreport = errors

\* a run reported defects of a first and of a later patch file together
C15_Witness ==
    /\ vpc = "exit"
    /\ vexit = 1
    /\ Len(Matching) >= 2
    /\ \E i, j \in 1..Len(vreport) :
         /\ vreport[i].path = Matching[1]
         /\ vreport[j].path = Matching[Len(Matching)]
         /\ vreport[j].kind = "no checkboxes"

\* --------------------------------------------------------------- intake

\* C16: the gate of a care-case is green when the tension of its signal is
\* below 0.40, yellow from 0.40 to below 0.75, red from 0.75 on, for every
\* tension in hundredths from 0 to MaxTension.
C16_GateBands ==
    scase # NoCase =>
        /\ ssignal.tension < 40 => scase.policy_gate = "green"
        /\ (40 <= ssignal.tension /\ ssignal.tension < 75) => scase.policy_gate = "yellow"
        /\ ssignal.tension >= 75 => scase.policy_gate = "red"

\* a care-case was built from a signal of tension exactly 0.75
C16_Witness ==
    /\ scase # NoCase
    /\ ssignal.tension = 75
    /\ scase.policy_gate = "red"

\* C17: the recommended action of a care-case is rollback iff its gate is
\* red and its signal is a failing web-perf signal, propose_patch iff its
\* gate is green, human_review in every other case.
C17_ActionTable ==
    scase # NoCase =>
        /\ scase.recommended_action = "rollback"
             <=> (scase.policy_gate = "red" /\ ssignal.kind = "web-perf"
                  /\ ssignal.severity = "fail")
        /\ scase.recommended_action = "propose_patch" <=> scase.policy_gate = "green"
        /\ scase.recommended_action \in {"rollback", "propose_patch", "human_review"}

\* a care-case was built from a failing red signal that is not web-perf
C17_Witness ==
    /\ scase # NoCase
    /\ scase.policy_gate = "red"
    /\ ssignal.kind = "security"
    /\ ssignal.severity = "fail"
    /\ scase.recommended_action = "human_review"

\* C18: an intake run that a schema validation aborted has written no
\* care-case: every file of generated/ is absent or as an earlier run left
\* it.
C18_NoWriteOnAbort ==
    (ipc = "exit" /\ iexit # 0) => \A k \in SignalIds : ifiles[k] \in {"absent", "old"}

\* C19: a reader of generated/ finds in a file the complete record of an
\* earlier run or the complete record of this run, never less.
C19_AtomicForReaders ==
    seen # "nothing" => seen \in Complete

\* ------------------------------------------------- producer and validator

\* C20: for every care-case with a change request, the head branch
\* guardian/<case_id> conforms to the branch format, the pushed branch
\* holds exactly the one file guardian/patches/<case_id>.md, and the
\* artifact written for it passes _validate_patch_markdown, with or without
\* verification steps, signals and root-cause hypothesis.
C20_ProducerValidatorAgree ==
    \A c \in Cases :
        NumPrs(c) > 0 =>
            /\ BRANCH_RE(Name(<<"guardian/">>, _derive_case_id(c), ""))
            /\ remote[c] # NoBranch => remote[c] = Branch({c})
            /\ \A v, g, h \in BOOLEAN :
                 _validate_patch_markdown(PatchPath(_derive_case_id(c)), _derive_case_id(c),
                                          _write_patch_stub(_derive_case_id(c), v, g, h)) = <<>>

\* ------------------------------------------- branch and artifact identity

\* the changed patch files named for the id of the head branch
OwnPatches == SelectSeq(Matching, LAMBDA f : Lower(f.stem) = Lower(vbranch.stem))

\* C21 as stated: the validator accepts a request on guardian/<A> only if
\* a changed patch file is named guardian/patches/<A>.md.
C21_IdentityBinding ==
    (vexit = 0 /\ BRANCH_RE(vbranch)) => OwnPatches # <<>>

\* C21: on a head branch guardian/<uuid> whose changed-file list was
\* obtained, a request whose changed files are all under guardian/patches/,
\* with at least one matching guardian/patches/<uuid>.md and every matching
\* file well-formed, is accepted whatever ids its patch files are named
\* for: the id of the branch is compared with none of them.
C21_AcceptsAnyPatchId ==
    ( /\ vpc = "exit"
      /\ BRANCH_RE(vbranch)
      /\ vdiff = "ok"
      /\ Outside = <<>>
      /\ Matching # <<>>
      /\ \A i \in 1..Len(Matching) : WellFormed(Matching[i]) )
    => /\ vexit = 0
       /\ patch_files = [i \in 1..Len(Matching) |-> <<Matching[i], Matching[i].stem>>]

\* a request on guardian/<a> whose only changed file is a well-formed
\* guardian/patches/<b>.md was accepted
C21_Witness ==
    /\ vexit = 0
    /\ vbranch = Name(<<"guardian/">>, IdA, "")
    /\ vchanged = << PatchPath(IdB) >>
    /\ vcontent[PatchPath(IdB)].mentions = {IdB}

\* ------------------------------------------------- concurrent instances

Pushers == {rpushed[k] : k \in 1..Len(rpushed)}

\* C22: the checks guard only against what is on the backend when they
\* run.  An instance goes on to create guardian/<case_id> exactly when its
\* change-request check found none and its branch check found none (or
\* failed); so two instances can both go on and both push, and when the
\* branch checks succeeded this happens only if the instances ran at the
\* same time, each check having come before any push.
C22_ChecksNotAtomic ==
    /\ \A i \in Instances :
         rpc[i] \in {"checkout", "stage", "commit", "push", "create", "annotate",
                     "return", "done"} =>
             /\ rsaw[i].prs = 0
             /\ rsaw[i].ls_ok => rsaw[i].pushed = 0
    /\ (Cardinality(Pushers) >= 2 /\ \A i \in Pushers : rsaw[i].ls_ok) => roverlap

\* two instances passed both checks with the backend holding nothing; one
\* has pushed guardian/<case_id> and the other, its commit made, is about to
C22_Witness ==
    /\ \E i, j \in Instances :
         /\ i # j
         /\ i \in Pushers
         /\ rpc[j] = "push"
         /\ rsaw[i] = [prs |-> 0, ls_ok |-> TRUE, pushed |-> 0]
         /\ rsaw[j] = [prs |-> 0, ls_ok |-> TRUE, pushed |-> 0]
    /\ roverlap

====
